---- MODULE Spec2Model ----
(***************************************************************************)
(* Model of deploy_ec2_with_github.py: a linear provisioning pipeline      *)
(* (GitHub repository, EC2 key pair, default VPC, security group, AMI      *)
(* lookup, batch instance launch) run by main() under one catch-all error  *)
(* boundary.  The provider-side resources (repository, key pairs, security *)
(* groups, the local .pem file) persist from one run of the script to the  *)
(* next; everything else is local to a run.                                *)
(***************************************************************************)
EXTENDS Integers, Sequences, FiniteSets, TLC

(***************************************************************************)
(* Bounds of the model.                                                    *)
(***************************************************************************)
MaxRuns == 2          \* runs of the script against the same account
MaxCount == 3         \* largest INSTANCE_COUNT tried
MaxImages == 3        \* longest describe_images answer
MaxDate == 3          \* distinct CreationDate values (ordered as the strings are)
MaxAttempts == 2      \* polls after which the SDK waiter gives up (40 in boto3)

(***************************************************************************)
(* Values.                                                                 *)
(***************************************************************************)
None == "None"
Regions == {"us-east-1", "us-west-2"}              \* AWS_REGION of a run
SgIdOf(r) == IF r = "us-east-1" THEN "sg-1" ELSE "sg-2"   \* GroupId the provider assigns in a region
SgIds == {SgIdOf(r) : r \in Regions}
Owner == "owner"                                   \* GITHUB_USERNAME
RepoName == "aws-ec2-50"                           \* GITHUB_REPO_NAME
Host == "https://github.com"
RepoUrls == {<<Host, Owner, RepoName>>, <<Host, "Owner", RepoName>>}  \* html_url values GitHub may answer
Texts == {"Bad credentials", "Server Error"}       \* resp.text values
Statuses == {201, 202, 422, 401, 500}              \* resp.status_code values
DuplicateGroup == "InvalidGroup.Duplicate"
DuplicateKey == "InvalidKeyPair.Duplicate"
OtherCode == "UnauthorizedOperation"               \* any other ClientError code
SshHttp == {22, 80}                                \* the two ingress ports
NoGroup == [id |-> None, rules |-> {}]
NoFile == "absent"
PublicIps == {"1.2.3.4", "5.6.7.8", None}          \* public_ip_address values; None = no address

NoErr == [kind |-> "none", code |-> "", status |-> 0, text |-> ""]
NoUrl == <<>>
NoResp == [status |-> 0, html_url |-> NoUrl, text |-> ""]
NoAmi == <<>>

VARIABLES
  repoExists,   \* GitHub: the repository owner/name exists
  keyRemote,    \* EC2, per region: a key pair named KEY_PAIR_NAME exists
  keyFile,      \* local <KEY_PAIR_NAME>.pem: NoFile, or the region whose key it holds (mode 0400)
  sg,           \* EC2, per region: the group named SECURITY_GROUP_NAME, [id, rules]
  run,          \* number of runs started
  region,       \* AWS_REGION of the current run
  N,            \* INSTANCE_COUNT of the current run
  creds,        \* GITHUB_TOKEN and GITHUB_USERNAME are both set
  pc,           \* position of main()
  calls,        \* remote calls issued by the current run, in order
  err,          \* exception caught by the error boundary, or NoErr
  failedStage,  \* stage of main() that raised, 0 if none
  resp,         \* create_github_repo: the HTTP response
  repoUrl,      \* main: repo_url
  keyOutcome,   \* create_key_pair: "none", "created", "duplicate", "error"
  fileWritten,  \* create_key_pair wrote the .pem file in this run
  vpcs,         \* get_default_vpc_id: the describe_vpcs answer
  vpcId,        \* main: vpc_id
  sgId,         \* main: sg_id
  sgErr,        \* create_security_group: the ClientError it caught, or NoErr
  images,       \* get_latest_ami: the describe_images answer
  amiId,        \* main: ami_id
  instIp,       \* provider side: public address of each instance of the batch
  idx,          \* launch_instances: instance being waited for
  attempts,     \* waiter: polls done for that instance
  ips           \* main: ips

world == <<repoExists, keyRemote, keyFile, sg>>
config == <<run, region, N, creds>>
control == <<pc, calls, err, failedStage>>
repoLocals == <<resp, repoUrl>>
keyLocals == <<keyOutcome, fileWritten>>
netLocals == <<vpcs, vpcId, sgId, sgErr>>
amiLocals == <<images, amiId>>
fleet == <<instIp, idx, attempts, ips>>
vars == <<world, config, control, repoLocals, keyLocals, netLocals, amiLocals, fleet>>

(***************************************************************************)
(* Helpers.                                                                *)
(***************************************************************************)
ClientError(code) == [kind |-> "ClientError", code |-> code, status |-> 0, text |-> ""]
PyError(kind) == [kind |-> kind, code |-> "", status |-> 0, text |-> ""]
Ok(v) == [raised |-> FALSE, value |-> v, error |-> NoErr]
Raised(e) == [raised |-> TRUE, value |-> None, error |-> e]

Call(op) == [op |-> op, min |-> 0, max |-> 0]

NextStagePc(stage) == <<"key", "vpc", "sg", "ami", "launch", "done">>[stage]

\* a variant of the boundary in which each stage swallows its own exception
OnRaiseContinue(stage) == NextStagePc(stage)

\* main has no handler of its own: an exception raised in any stage leaves
\* main and lands in the except clause of the __main__ block, which prints it
OnRaise(stage) == "failed"

Fail(stage, e) ==
  /\ pc' = OnRaise(stage)
  /\ err' = e
  /\ failedStage' = stage

Goto(p) ==
  /\ pc' = p
  /\ UNCHANGED <<err, failedStage>>

\* a variant of indexing that answers None for an empty list
Index0OrNone(s) == IF Len(s) = 0 THEN Ok(None) ELSE Ok(s[1])

\* s[0] in Python: IndexError on an empty list
Index0(s) == IF Len(s) = 0 THEN Raised(PyError("IndexError")) ELSE Ok(s[1])

(***************************************************************************)
(* Init and the start of a run.                                            *)
(***************************************************************************)
RunLocalsReset ==
  /\ calls' = <<>>
  /\ err' = NoErr
  /\ failedStage' = 0
  /\ resp' = NoResp
  /\ repoUrl' = NoUrl
  /\ keyOutcome' = "none"
  /\ fileWritten' = FALSE
  /\ vpcs' = <<>>
  /\ vpcId' = None
  /\ sgId' = None
  /\ sgErr' = NoErr
  /\ images' = <<>>
  /\ amiId' = NoAmi
  /\ instIp' = <<>>
  /\ idx' = 0
  /\ attempts' = 0
  /\ ips' = <<>>

Init ==
  /\ repoExists = FALSE
  /\ keyRemote = [r \in Regions |-> FALSE]
  /\ keyFile = NoFile
  /\ sg = [r \in Regions |-> NoGroup]
  /\ run = 0
  /\ region = "us-east-1"
  /\ N = 1
  /\ creds = FALSE
  /\ pc = "idle"
  /\ calls = <<>>
  /\ err = NoErr
  /\ failedStage = 0
  /\ resp = NoResp
  /\ repoUrl = NoUrl
  /\ keyOutcome = "none"
  /\ fileWritten = FALSE
  /\ vpcs = <<>>
  /\ vpcId = None
  /\ sgId = None
  /\ sgErr = NoErr
  /\ images = <<>>
  /\ amiId = NoAmi
  /\ instIp = <<>>
  /\ idx = 0
  /\ attempts = 0
  /\ ips = <<>>

\* the script is started (again): configuration is read from the environment
StartRun(r, n, c) ==
  /\ pc \in {"idle", "done", "failed"}
  /\ run < MaxRuns
  /\ run' = run + 1
  /\ region' = r
  /\ N' = n
  /\ creds' = c
  /\ pc' = "repo"
  /\ RunLocalsReset
  /\ UNCHANGED world

(***************************************************************************)
(* Stage 1: create_github_repo                                             *)
(***************************************************************************)
SynthUrl == <<Host, Owner, RepoName>>

\* a variant that treats 422 like any other error status
create_github_repo_strict(r) ==
  IF r.status \in {201, 202} THEN Ok(r.html_url)
  ELSE Raised([kind |-> "Exception", code |-> "", status |-> r.status, text |-> r.text])

\* the branch on resp.status_code
create_github_repo_result(r) ==
  IF r.status \in {201, 202} THEN Ok(r.html_url)
  ELSE IF r.status = 422 THEN Ok(SynthUrl)
  ELSE Raised([kind |-> "Exception", code |-> "", status |-> r.status, text |-> r.text])

\* what GitHub can answer: creation only of a repository that is not there,
\* 422 for one that is, an error status at any time
GitHubAnswers(status) ==
  \/ status \in {201, 202} /\ ~repoExists
  \/ status = 422 /\ repoExists
  \/ status \in {401, 500}

RepoMissingCredentials ==
  /\ pc = "repo"
  /\ ~creds
  /\ Fail(1, PyError("ValueError"))
  /\ UNCHANGED <<world, config, calls, repoLocals, keyLocals, netLocals, amiLocals, fleet>>

CreateGithubRepo(status, url, text) ==
  /\ pc = "repo"
  /\ creds
  /\ GitHubAnswers(status)
  /\ LET r == [status |-> status, html_url |-> url, text |-> text]
         res == create_github_repo_result(r)
     IN /\ calls' = Append(calls, Call("post_user_repos"))
        /\ resp' = r
        /\ repoExists' = (repoExists \/ status \in {201, 202})
        /\ IF res.raised
             THEN Fail(1, res.error) /\ UNCHANGED repoUrl
             ELSE Goto("key") /\ repoUrl' = res.value
  /\ UNCHANGED <<keyRemote, keyFile, sg, config, keyLocals, netLocals, amiLocals, fleet>>

(***************************************************************************)
(* Stage 2: create_key_pair                                                *)
(***************************************************************************)
\* open(key_path, "w"): creates a missing file; the file left by an earlier
\* run has mode 0400, so opening it for writing succeeds only for a
\* privileged user and raises PermissionError otherwise
OpenForWrite(file) == IF file = NoFile THEN {"ok"} ELSE {"ok", "PermissionError"}

IsDuplicateKey(e) == e.code = DuplicateKey

CreateKeyPairCreated(outcome) ==
  /\ pc = "key"
  /\ ~keyRemote[region]
  /\ outcome \in OpenForWrite(keyFile)
  /\ calls' = Append(calls, Call("create_key_pair"))
  /\ keyRemote' = [keyRemote EXCEPT ![region] = TRUE]
  /\ resp' = NoResp
  /\ IF outcome = "ok"
       THEN /\ keyFile' = region
            /\ keyOutcome' = "created"
            /\ fileWritten' = TRUE
            /\ Goto("vpc")
       ELSE /\ keyOutcome' = "created"
            /\ fileWritten' = FALSE
            /\ Fail(2, PyError(outcome))
            /\ UNCHANGED keyFile
  /\ UNCHANGED <<repoExists, sg, config, repoUrl, netLocals, amiLocals, fleet>>

CreateKeyPairError(code) ==
  /\ pc = "key"
  /\ code \in {DuplicateKey, OtherCode}
  /\ code = DuplicateKey => keyRemote[region]
  /\ calls' = Append(calls, Call("create_key_pair"))
  /\ resp' = NoResp
  /\ IF IsDuplicateKey(ClientError(code))
       THEN keyOutcome' = "duplicate" /\ Goto("vpc")
       ELSE keyOutcome' = "error" /\ Fail(2, ClientError(code))
  /\ UNCHANGED <<world, config, repoUrl, fileWritten, netLocals, amiLocals, fleet>>

(***************************************************************************)
(* Stage 3: get_default_vpc_id                                             *)
(***************************************************************************)
VpcLists == {<<>>, <<"vpc-default">>}

get_default_vpc_id(answer) == Index0(answer)

GetDefaultVpcId(answer) ==
  /\ pc = "vpc"
  /\ calls' = Append(calls, Call("describe_vpcs"))
  /\ vpcs' = answer
  /\ LET res == get_default_vpc_id(answer)
     IN IF res.raised
          THEN Fail(3, res.error) /\ UNCHANGED vpcId
          ELSE Goto("sg") /\ vpcId' = res.value
  /\ UNCHANGED <<world, config, repoLocals, keyLocals, sgId, sgErr, amiLocals, fleet>>

DescribeVpcsError ==
  /\ pc = "vpc"
  /\ calls' = Append(calls, Call("describe_vpcs"))
  /\ Fail(3, ClientError(OtherCode))
  /\ UNCHANGED <<world, config, repoLocals, keyLocals, netLocals, amiLocals, fleet>>

(***************************************************************************)
(* Stage 4: create_security_group                                          *)
(***************************************************************************)
\* a variant of the handler that takes every ClientError for a duplicate
IsAnyClientError(e) == e.kind = "ClientError"

\* "InvalidGroup.Duplicate" in str(e)
IsDuplicateGroup(e) == e.code = DuplicateGroup

\* ec2.create_security_group succeeds: the group exists, with no rule yet
CreateSecurityGroupCreated ==
  /\ pc = "sg"
  /\ sg[region] = NoGroup
  /\ calls' = Append(calls, Call("create_security_group"))
  /\ sg' = [sg EXCEPT ![region] = [id |-> SgIdOf(region), rules |-> {}]]
  /\ Goto("sg_auth")
  /\ UNCHANGED <<repoExists, keyRemote, keyFile, config, repoLocals, keyLocals, netLocals, amiLocals, fleet>>

\* ec2.create_security_group raises: the handler reuses or re-raises
CreateSecurityGroupError(code) ==
  /\ pc = "sg"
  /\ code \in {DuplicateGroup, OtherCode}
  /\ code = DuplicateGroup => sg[region] # NoGroup
  /\ calls' = Append(calls, Call("create_security_group"))
  /\ sgErr' = ClientError(code)
  /\ IF IsDuplicateGroup(ClientError(code))
       THEN Goto("sg_lookup")
       ELSE Fail(4, ClientError(code))
  /\ UNCHANGED <<world, config, repoLocals, keyLocals, vpcs, vpcId, sgId, amiLocals, fleet>>

\* ec2.authorize_security_group_ingress succeeds: both rules are added
AuthorizeIngress ==
  /\ pc = "sg_auth"
  /\ calls' = Append(calls, Call("authorize_security_group_ingress"))
  /\ sg' = [sg EXCEPT ![region].rules = @ \cup SshHttp]
  /\ sgId' = sg[region].id
  /\ Goto("ami")
  /\ UNCHANGED <<repoExists, keyRemote, keyFile, config, repoLocals, keyLocals, vpcs, vpcId, sgErr, amiLocals, fleet>>

\* ec2.authorize_security_group_ingress raises: not a duplicate group, re-raised
AuthorizeIngressError ==
  /\ pc = "sg_auth"
  /\ calls' = Append(calls, Call("authorize_security_group_ingress"))
  /\ sgErr' = ClientError(OtherCode)
  /\ IF IsDuplicateGroup(ClientError(OtherCode))
       THEN Goto("sg_lookup")
       ELSE Fail(4, ClientError(OtherCode))
  /\ UNCHANGED <<world, config, repoLocals, keyLocals, vpcs, vpcId, sgId, amiLocals, fleet>>

\* the duplicate branch: describe_security_groups(GroupNames=[name])[0]
DescribeSecurityGroups ==
  /\ pc = "sg_lookup"
  /\ calls' = Append(calls, Call("describe_security_groups"))
  /\ IF sg[region] = NoGroup
       THEN Fail(4, ClientError("InvalidGroup.NotFound")) /\ UNCHANGED sgId
       ELSE Goto("ami") /\ sgId' = Index0(<<sg[region]>>).value.id
  /\ UNCHANGED <<world, config, repoLocals, keyLocals, vpcs, vpcId, sgErr, amiLocals, fleet>>

DescribeSecurityGroupsError ==
  /\ pc = "sg_lookup"
  /\ calls' = Append(calls, Call("describe_security_groups"))
  /\ Fail(4, ClientError(OtherCode))
  /\ UNCHANGED <<world, config, repoLocals, keyLocals, netLocals, amiLocals, fleet>>

(***************************************************************************)
(* Stage 5: get_latest_ami                                                 *)
(***************************************************************************)
DateLists == UNION {[1..n -> 1..MaxDate] : n \in 0..MaxImages}

\* the describe_images answer with the given creation dates; the id of an
\* image is its position in the answer
MkImages(d) == [i \in 1..Len(d) |-> [ImageId |-> <<"ami", i>>, CreationDate |-> d[i]]]

RECURSIVE InsertDesc(_, _)
\* x goes after every element whose date is not older: equal dates keep input order
InsertDesc(x, s) ==
  IF s = <<>> THEN <<x>>
  ELSE IF Head(s).CreationDate >= x.CreationDate
         THEN <<Head(s)>> \o InsertDesc(x, Tail(s))
         ELSE <<x>> \o s

RECURSIVE InsertAsc(_, _)
InsertAsc(x, s) ==
  IF s = <<>> THEN <<x>>
  ELSE IF Head(s).CreationDate <= x.CreationDate
         THEN <<Head(s)>> \o InsertAsc(x, Tail(s))
         ELSE <<x>> \o s

RECURSIVE SortWith(_, _, _)
SortWith(desc, s, acc) ==
  IF s = <<>> THEN acc
  ELSE SortWith(desc, Tail(s), IF desc THEN InsertDesc(Head(s), acc) ELSE InsertAsc(Head(s), acc))

RECURSIVE Reversed(_)
Reversed(s) == IF s = <<>> THEN <<>> ELSE Append(Reversed(Tail(s)), Head(s))

\* a variant: sorted(images, key=...)[::-1], which reverses the order of ties
sorted_asc_reversed(imgs) == Reversed(SortWith(FALSE, imgs, <<>>))

\* sorted(images, key=lambda x: x["CreationDate"], reverse=True): a stable
\* sort, newest first
sorted_images(imgs) == SortWith(TRUE, imgs, <<>>)

\* sorted_images[0]["ImageId"]; subscripting what is not an image is a TypeError
get_latest_ami(imgs) ==
  LET srt == sorted_images(imgs)
      res == Index0(srt)
  IN IF res.raised THEN res
     ELSE IF srt = <<>> THEN Raised(PyError("TypeError"))
     ELSE Ok(res.value.ImageId)

GetLatestAmi(d) ==
  /\ pc = "ami"
  /\ calls' = Append(calls, Call("describe_images"))
  /\ images' = MkImages(d)
  /\ LET res == get_latest_ami(MkImages(d))
     IN IF res.raised
          THEN Fail(5, res.error) /\ UNCHANGED amiId
          ELSE Goto("launch") /\ amiId' = res.value
  /\ UNCHANGED <<world, config, repoLocals, keyLocals, netLocals, fleet>>

DescribeImagesError ==
  /\ pc = "ami"
  /\ calls' = Append(calls, Call("describe_images"))
  /\ Fail(5, ClientError(OtherCode))
  /\ UNCHANGED <<world, config, repoLocals, keyLocals, netLocals, amiLocals, fleet>>

(***************************************************************************)
(* Stage 6: launch_instances                                               *)
(***************************************************************************)
\* a variant that lets the provider launch fewer instances than asked
CreateInstancesRequestMinOne(n) == [op |-> "create_instances", min |-> 1, max |-> n]

\* ec2_resource.create_instances(MinCount=INSTANCE_COUNT, MaxCount=INSTANCE_COUNT, ...)
CreateInstancesRequest(n) == [op |-> "create_instances", min |-> n, max |-> n]

\* the batch is accepted: N instances, pending, without a public address yet
CreateInstances ==
  /\ pc = "launch"
  /\ calls' = Append(calls, CreateInstancesRequest(N))
  /\ images' = <<>>
  /\ instIp' = [i \in 1..N |-> None]
  /\ idx' = 1
  /\ attempts' = 0
  /\ Goto("wait")
  /\ UNCHANGED <<world, config, repoLocals, keyLocals, netLocals, amiId, ips>>

\* the batch is refused as a whole
CreateInstancesError ==
  /\ pc = "launch"
  /\ calls' = Append(calls, CreateInstancesRequest(N))
  /\ images' = <<>>
  /\ Fail(6, ClientError(OtherCode))
  /\ UNCHANGED <<world, config, repoLocals, keyLocals, netLocals, amiId, fleet>>

\* a variant of the waiter that polls for ever
WaiterNeverGivesUp(a) == FALSE

\* instance.wait_until_running(): the SDK waiter raises WaiterError once it
\* has polled its maximum number of times without seeing "running"
WaiterGivesUp(a) == a >= MaxAttempts

WaitCall == IF attempts = 0 THEN Append(calls, Call("wait_until_running")) ELSE calls

\* a poll that sees the instance still pending; the count is kept within
\* 1..MaxAttempts, a range the waiter's own limit never lets it leave
WaitPending ==
  /\ pc = "wait"
  /\ calls' = WaitCall
  /\ attempts' = IF attempts < MaxAttempts THEN attempts + 1 ELSE 1
  /\ IF WaiterGivesUp(attempts')
       THEN Fail(6, PyError("WaiterError"))
       ELSE Goto("wait")
  /\ UNCHANGED <<world, config, repoLocals, keyLocals, netLocals, amiLocals, instIp, idx, ips>>

\* a poll that sees the instance in a state from which it cannot run
WaitTerminated ==
  /\ pc = "wait"
  /\ calls' = WaitCall
  /\ Fail(6, PyError("WaiterError"))
  /\ UNCHANGED <<world, config, repoLocals, keyLocals, netLocals, amiLocals, fleet>>

\* a poll that sees the instance running; the provider has settled its address
WaitRunning(ip) ==
  /\ pc = "wait"
  /\ calls' = WaitCall
  /\ instIp' = [instIp EXCEPT ![idx] = ip]
  /\ attempts' = 0
  /\ IF idx = N
       THEN Goto("reload") /\ UNCHANGED idx
       ELSE Goto("wait") /\ idx' = idx + 1
  /\ UNCHANGED <<world, config, repoLocals, keyLocals, netLocals, amiLocals, ips>>

\* a variant that keeps the attributes of the create_instances answer
no_reload(cached, provider) == cached

\* i.reload(): the resource's attributes become the provider's current ones
reload(cached, provider) == provider

\* [i.public_ip_address for i in instances]
public_ips(insts) == [i \in 1..Len(insts) |-> insts[i]]

\* instances = [i.reload() or i for i in instances]; the addresses are read,
\* printed and returned, and main prints its summary
ReloadAndReturn ==
  /\ pc = "reload"
  /\ calls' = Append(calls, Call("reload"))
  /\ ips' = public_ips(reload([i \in 1..N |-> None], instIp))
  /\ Goto("done")
  /\ UNCHANGED <<world, config, repoLocals, keyLocals, netLocals, amiLocals, instIp, idx, attempts>>

ReloadError ==
  /\ pc = "reload"
  /\ calls' = Append(calls, Call("reload"))
  /\ Fail(6, ClientError(OtherCode))
  /\ UNCHANGED <<world, config, repoLocals, keyLocals, netLocals, amiLocals, fleet>>

(***************************************************************************)
(* Specifications.                                                         *)
(***************************************************************************)
RunStep ==
  \/ RepoMissingCredentials
  \/ \E status \in Statuses, url \in RepoUrls, text \in Texts : CreateGithubRepo(status, url, text)
  \/ \E outcome \in {"ok", "PermissionError"} : CreateKeyPairCreated(outcome)
  \/ \E code \in {DuplicateKey, OtherCode} : CreateKeyPairError(code)
  \/ \E answer \in VpcLists : GetDefaultVpcId(answer)
  \/ DescribeVpcsError
  \/ CreateSecurityGroupCreated
  \/ \E code \in {DuplicateGroup, OtherCode} : CreateSecurityGroupError(code)
  \/ AuthorizeIngress
  \/ AuthorizeIngressError
  \/ DescribeSecurityGroups
  \/ DescribeSecurityGroupsError
  \/ \E d \in DateLists : GetLatestAmi(d)
  \/ DescribeImagesError
  \/ CreateInstances
  \/ CreateInstancesError
  \/ WaitPending
  \/ WaitTerminated
  \/ \E ip \in PublicIps : WaitRunning(ip)
  \/ ReloadAndReturn
  \/ ReloadError

Next ==
  \/ \E r \in Regions, n \in 1..MaxCount, c \in BOOLEAN : StartRun(r, n, c)
  \/ RunStep

Spec == Init /\ [][Next]_vars

\* the interpreter keeps executing a started run: no step of it is postponed for ever
FairSpec == Spec /\ WF_vars(RunStep)

(***************************************************************************)
(* Properties.                                                             *)
(***************************************************************************)
\* the stage of main() that issues a remote call
StageOfOp(op) ==
  CASE op = "post_user_repos" -> 1
    [] op = "create_key_pair" -> 2
    [] op = "describe_vpcs" -> 3
    [] op \in {"create_security_group", "authorize_security_group_ingress", "describe_security_groups"} -> 4
    [] op = "describe_images" -> 5
    [] op \in {"create_instances", "wait_until_running", "reload"} -> 6

LastCallIs(op) == calls # <<>> /\ calls[Len(calls)].op = op
Issued(op) == {i \in DOMAIN calls : calls[i].op = op}

TypeOK ==
  /\ repoExists \in BOOLEAN
  /\ keyRemote \in [Regions -> BOOLEAN]
  /\ keyFile \in {NoFile} \cup Regions
  /\ \A r \in Regions : sg[r].id \in SgIds \cup {None} /\ sg[r].rules \in {{}, SshHttp}
  /\ run \in 0..MaxRuns
  /\ region \in Regions
  /\ N \in 1..MaxCount
  /\ creds \in BOOLEAN
  /\ pc \in {"idle", "repo", "key", "vpc", "sg", "sg_auth", "sg_lookup", "ami", "launch", "wait", "reload", "done", "failed"}
  /\ failedStage \in 0..6
  /\ (pc = "failed") = (failedStage # 0)
  /\ (pc = "failed") = (err # NoErr)
  /\ keyOutcome \in {"none", "created", "duplicate", "error"}
  /\ fileWritten \in BOOLEAN
  /\ vpcId \in {None, "vpc-default"}
  /\ sgId \in SgIds \cup {None}
  /\ attempts \in 0..MaxAttempts
  /\ idx \in 0..N
  /\ Len(ips) \in {0, N}

\* C1: the remote calls of a run follow the stage order repo, key pair, VPC,
\* security group, AMI, launch, each stage after the one before it and none
\* twice; once a stage has raised, the run issues no further call and moves
\* no further, so no call of a run belongs to a stage after the one that
\* raised (a VPC failure leaves create_instances unissued).
C1_FixedOrderHaltOnFailure ==
  /\ [](\A i \in DOMAIN calls :
          /\ i = 1 => StageOfOp(calls[i].op) = 1
          /\ i > 1 => StageOfOp(calls[i].op) \in
                        {StageOfOp(calls[i-1].op), StageOfOp(calls[i-1].op) + 1}
          /\ failedStage # 0 => StageOfOp(calls[i].op) <= failedStage)
  /\ [](failedStage = 3 => Issued("create_instances") = {})
  /\ [][failedStage # 0 /\ run' = run => calls' = calls /\ pc' = pc]_vars

C1_Witness ==
  /\ failedStage = 3
  /\ repoUrl # NoUrl
  /\ keyOutcome = "created"
  /\ Len(calls) = 3

\* C2: a security group id returned by create_security_group names a group
\* that allows inbound TCP/22 and TCP/80.
C2_ReturnedGroupAllowsSshHttp ==
  sgId # None => SshHttp \subseteq sg[region].rules

\* C3: a run issues at most one create_instances request, exactly one once
\* launch_instances has issued it, and that request has MinCount = MaxCount = N.
C3_OneBatchRequest ==
  /\ Cardinality(Issued("create_instances")) <= 1
  /\ (pc \in {"wait", "reload", "done"} \/ failedStage = 6)
       => Cardinality(Issued("create_instances")) = 1
  /\ \A i \in Issued("create_instances") : calls[i].min = N /\ calls[i].max = N

C3_Witness ==
  /\ pc = "done"
  /\ N = MaxCount
  /\ Cardinality(Issued("create_instances")) = 1
  /\ Cardinality(Issued("wait_until_running")) = N

\* C4: create_key_pair answered with a duplicate key name does not raise and
\* does not write the .pem file, and the .pem file is written exactly when
\* the remote key pair was created.
C4_KeyFileWrittenIffCreated ==
  /\ keyOutcome = "duplicate" => failedStage # 2 /\ ~fileWritten
  /\ keyOutcome # "none" => (fileWritten <=> keyOutcome = "created")

\* C5: after InvalidGroup.Duplicate, create_security_group issues no
\* authorize_security_group_ingress call and what it returns is the id of the
\* existing group; any other ClientError it catches is re-raised.
C5_DuplicateGroupReused ==
  /\ sgErr.code = DuplicateGroup =>
       /\ Issued("authorize_security_group_ingress") = {}
       /\ sgId # None => sgId = sg[region].id
       /\ failedStage = 4 => LastCallIs("describe_security_groups")
  /\ (sgErr # NoErr /\ sgErr.code # DuplicateGroup) =>
       pc = "failed" /\ failedStage = 4 /\ err = sgErr /\ sgId = None

C5_Witness ==
  /\ sgErr.code = DuplicateGroup
  /\ pc = "ami"
  /\ sgId = sg[region].id
  /\ Issued("describe_security_groups") # {}

\* C6: an empty describe_vpcs or describe_images answer makes the stage raise
\* the index error that the error boundary catches (the failure kind for an
\* empty result set), and the run ends there: the lookup is its last call.
C6_EmptyLookupReported ==
  /\ (LastCallIs("describe_vpcs") /\ err.kind # "ClientError" /\ vpcs = <<>>) =>
       pc = "failed" /\ failedStage = 3 /\ err.kind = "IndexError"
  /\ (LastCallIs("describe_images") /\ err.kind # "ClientError" /\ images = <<>>) =>
       pc = "failed" /\ failedStage = 5 /\ err.kind = "IndexError"
  /\ (err.kind = "IndexError") => (pc = "failed" /\ failedStage \in {3, 5})

C6_Witness ==
  /\ LastCallIs("describe_images")
  /\ images = <<>>
  /\ err.kind = "IndexError"
  /\ pc = "failed"
  /\ vpcId # None

C8_RepoStatusBranches ==
  resp # NoResp =>
    /\ resp.status = 422 => pc = "key" /\ failedStage = 0 /\ repoUrl = <<Host, Owner, RepoName>>
    /\ resp.status \in {201, 202} => pc = "key" /\ failedStage = 0 /\ repoUrl = resp.html_url
    /\ resp.status \notin {201, 202, 422} =>
         /\ pc = "failed" /\ failedStage = 1
         /\ err.kind = "Exception" /\ err.status = resp.status /\ err.text = resp.text

C8_Witness ==
  /\ resp.status = 422
  /\ pc = "key"
  /\ repoUrl = <<Host, Owner, RepoName>>
  /\ resp.html_url # repoUrl

\* C9: when every instance of the batch has reached running, the list
\* returned has N entries, the i-th one the address the provider holds for
\* the i-th instance, None included.
C9_IpsInWaitOrder ==
  pc = "done" => Len(ips) = N /\ \A i \in 1..N : ips[i] = instIp[i]

C9_Witness ==
  /\ pc = "done"
  /\ N = 3
  /\ ips = <<"1.2.3.4", "5.6.7.8", None>>

\* C10: for a non-empty describe_images answer get_latest_ami returns the id
\* of the first image, in the order of the answer, among those whose
\* CreationDate is the greatest.
C10_NewestFirstOfTies ==
  (pc = "launch" /\ images # <<>>) =>
    \E k \in DOMAIN images :
      /\ amiId = images[k].ImageId
      /\ \A j \in DOMAIN images : images[j].CreationDate <= images[k].CreationDate
      /\ \A j \in 1..(k-1) : images[j].CreationDate < images[k].CreationDate

C10_Witness ==
  /\ pc = "launch"
  /\ Len(images) = 3
  /\ images[1].CreationDate < images[2].CreationDate
  /\ images[2].CreationDate = images[3].CreationDate
  /\ amiId = images[2].ImageId

====
